---- MODULE Spec2Model ----
(***************************************************************************)
(* State-machine model of the station-grid manager of the UK rail          *)
(* departures dashboard (App): the grid of station codes, its persistence  *)
(* under the localStorage key "stationGrid", the startup initialiser with  *)
(* its geolocation request, and the five grid mutations.                   *)
(*                                                                         *)
(* JavaScript values are modelled as tagged records [k, v]; text (station  *)
(* codes, cell ids, JSON) is a sequence of characters, each character a    *)
(* one-element atom.  The atom "sz" stands for the letter U+00DF (sharp s),*)
(* whose upper-case form in JavaScript is the two letters "SS".            *)
(***************************************************************************)
EXTENDS Integers, Sequences, FiniteSets, TLC

\* ------------------------------------------------------------------ bounds
MaxOps == 2          \* user interactions per behaviour
MaxReloads == 1      \* page reloads per behaviour
MaxIndex == 2        \* largest row / column index passed to a handler called directly
MaxCalls == 1        \* direct handler calls per behaviour
MaxDirLen == 3       \* entries of a station directory handed to the nearest-station selection
MaxRequests == 3     \* departure requests one board issues per behaviour
MaxChanges == 1      \* station-code changes of one board per behaviour
MaxHours == 27       \* entries of an hourly time sequence
MaxStart == 2        \* latest first hour of an hourly time sequence
MaxNow == 29         \* latest current hour
MaxIntervals == 2    \* weather poll intervals that pass per behaviour

\* ------------------------------------------------------- JavaScript values
Str(s) == [k |-> "str", v |-> s]
Arr(a) == [k |-> "arr", v |-> a]
Num(d) == [k |-> "num", v |-> <<d>>]
Undefined == [k |-> "undef", v |-> <<>>]
Null == [k |-> "null", v |-> <<>>]

IsArray(x) == x.k = "arr"

\* a[i] for a JavaScript array a (0-based); reading past the end gives undefined
ArrayGet(a, i) == IF i >= 0 /\ i < Len(a.v) THEN a.v[i + 1] ELSE Undefined

\* a[i] = x for a JavaScript array a: writing past the end grows the array,
\* the skipped indices read as undefined
ArraySet(a, i, x) ==
    IF i < Len(a.v)
    THEN Arr([a.v EXCEPT ![i + 1] = x])
    ELSE Arr(a.v \o [j \in 1..(i - Len(a.v)) |-> Undefined] \o <<x>>)

\* a.splice(i, 1) for 0 <= i: removes the element at i when there is one
ArraySplice1(a, i) ==
    IF i < Len(a.v)
    THEN Arr(SubSeq(a.v, 1, i) \o SubSeq(a.v, i + 2, Len(a.v)))
    ELSE a

\* ------------------------------------------------------------ program text
KGX == Str(<<"K", "G", "X">>)
EUS == Str(<<"E", "U", "S">>)
PAD == Str(<<"P", "A", "D">>)
WAT == Str(<<"W", "A", "T">>)

fallbackStations == <<KGX, EUS, PAD, WAT>>

\* variant of FallbackGrid: the four fallback codes in a single row
FallbackGridOneRow == Arr(<<Arr(fallbackStations)>>)

\* the value both fallback branches of the load effect pass to setStations
FallbackGrid ==
    Arr(<<Arr(<<fallbackStations[1], fallbackStations[2]>>),
          Arr(<<fallbackStations[3], fallbackStations[4]>>)>>)

\* maxLength of the station-code input
InputMaxLength == 3

\* String.prototype.toUpperCase, one character at a time
UpperOf(ch) ==
    CASE ch = "k" -> <<"K">>
      [] ch = "g" -> <<"G">>
      [] ch = "x" -> <<"X">>
      [] ch = "e" -> <<"E">>
      [] ch = "s" -> <<"S">>
      [] ch = "sz" -> <<"S", "S">>
      [] OTHER -> <<ch>>

RECURSIVE UpperChars(_)
UpperChars(s) == IF s = <<>> THEN <<>> ELSE UpperOf(Head(s)) \o UpperChars(Tail(s))

toUpperCase(x) == Str(UpperChars(x.v))

\* ------------------------------------------------------- JSON.stringify
\* (no character of the model's texts is one that JSON escapes; undefined
\* elements of an array are written as null)
RECURSIVE Stringify(_), StringifyElements(_)
StringifyElements(s) ==
    IF s = <<>> THEN <<>>
    ELSE IF Len(s) = 1 THEN Stringify(s[1])
    ELSE Stringify(s[1]) \o <<",">> \o StringifyElements(Tail(s))

Stringify(x) ==
    CASE x.k = "str" -> <<"\"">> \o x.v \o <<"\"">>
      [] x.k = "arr" -> <<"[">> \o StringifyElements(x.v) \o <<"]">>
      [] x.k = "num" -> x.v
      [] OTHER -> <<"n", "u", "l", "l">>

\* ----------------------------------------------------------- JSON.parse
Digits == {"0", "1", "2", "3", "4", "5", "6", "7", "8", "9"}

ParseFail == [ok |-> FALSE, val |-> Undefined, rest |-> <<>>]
ParseOk(x, r) == [ok |-> TRUE, val |-> x, rest |-> r]

RECURSIVE ParseString(_, _)
ParseString(t, acc) ==
    IF t = <<>> THEN ParseFail
    ELSE IF Head(t) = "\"" THEN ParseOk(Str(acc), Tail(t))
    ELSE ParseString(Tail(t), Append(acc, Head(t)))

RECURSIVE ParseValue(_), ParseElements(_, _)
ParseElements(t, acc) ==
    LET r == ParseValue(t) IN
    IF ~r.ok \/ r.rest = <<>> THEN ParseFail
    ELSE IF Head(r.rest) = "]" THEN ParseOk(Arr(Append(acc, r.val)), Tail(r.rest))
    ELSE IF Head(r.rest) = "," THEN ParseElements(Tail(r.rest), Append(acc, r.val))
    ELSE ParseFail

ParseValue(t) ==
    IF t = <<>> THEN ParseFail
    ELSE IF Head(t) = "[" THEN
        IF Len(t) >= 2 /\ t[2] = "]" THEN ParseOk(Arr(<<>>), SubSeq(t, 3, Len(t)))
        ELSE ParseElements(Tail(t), <<>>)
    ELSE IF Head(t) = "\"" THEN ParseString(Tail(t), <<>>)
    ELSE IF Head(t) \in Digits THEN ParseOk(Num(Head(t)), Tail(t))
    ELSE IF Len(t) >= 4 /\ SubSeq(t, 1, 4) = <<"n", "u", "l", "l">>
        THEN ParseOk(Null, SubSeq(t, 5, Len(t)))
    ELSE ParseFail

\* JSON.parse(text): ok = FALSE stands for the SyntaxError it throws
JsonParse(text) ==
    LET r == ParseValue(text) IN
    IF r.ok /\ r.rest = <<>> THEN [ok |-> TRUE, val |-> r.val]
    ELSE [ok |-> FALSE, val |-> Undefined]

\* ------------------------------------------------------------ localStorage
STORAGE_KEY == <<"s", "t", "a", "t", "i", "o", "n", "G", "r", "i", "d">>

\* truthiness of what localStorage.getItem returned (null and "" are falsy)
Truthy(saved) == saved.present /\ saved.text # <<>>

\* ------------------------------------------------------ station directory
\* entries of uk_stations.json (code, lat, lon in thousandths of a degree)
YRK == Str(<<"Y", "R", "K">>)

stationsData ==
    << [code |-> YRK, lat |-> 53958, lon |-> -1093],
       [code |-> PAD, lat |-> 51516, lon |-> -177],
       [code |-> KGX, lat |-> 51531, lon |-> -123],
       [code |-> EUS, lat |-> 51528, lon |-> -133],
       [code |-> WAT, lat |-> 51503, lon |-> -113] >>

londonTerminals ==
    { KGX, EUS, PAD, WAT, Str(<<"V", "I", "C">>), Str(<<"L", "S", "T">>),
      Str(<<"C", "H", "X">>), Str(<<"C", "S", "T">>), Str(<<"F", "S", "T">>),
      Str(<<"S", "T", "P">>) }

\* positions the device may report (thousandths of a degree)
Positions == { [latitude |-> 53960, longitude |-> -1080],
               [latitude |-> 51520, longitude |-> -130] }

\* haversine(lat1, lon1, lat2, lon2) in metres, R = 6371 km, tabulated for
\* the positions and directory entries above
haversine(lat1, lon1, lat2, lon2) ==
    CASE <<lat1, lon1, lat2, lon2>> = <<53960, -1080, 53958, -1093>> -> 879
      [] <<lat1, lon1, lat2, lon2>> = <<53960, -1080, 51516, -177>> -> 278471
      [] <<lat1, lon1, lat2, lon2>> = <<53960, -1080, 51531, -123>> -> 277661
      [] <<lat1, lon1, lat2, lon2>> = <<53960, -1080, 51528, -133>> -> 277831
      [] <<lat1, lon1, lat2, lon2>> = <<53960, -1080, 51503, -113>> -> 280850
      [] <<lat1, lon1, lat2, lon2>> = <<51520, -130, 53958, -1093>> -> 278731
      [] <<lat1, lon1, lat2, lon2>> = <<51520, -130, 51516, -177>> -> 3282
      [] <<lat1, lon1, lat2, lon2>> = <<51520, -130, 51531, -123>> -> 1316
      [] <<lat1, lon1, lat2, lon2>> = <<51520, -130, 51528, -133>> -> 913
      [] <<lat1, lon1, lat2, lon2>> = <<51520, -130, 51503, -113>> -> 2227

\* Array.prototype.sort((a, b) => a.dist - b.dist): stable, ascending
RECURSIVE InsertByDist(_, _)
InsertByDist(sorted, e) ==
    IF sorted = <<>> THEN <<e>>
    ELSE IF e.dist < Head(sorted).dist THEN <<e>> \o sorted
    ELSE <<Head(sorted)>> \o InsertByDist(Tail(sorted), e)

RECURSIVE SortByDist(_)
SortByDist(s) ==
    IF s = <<>> THEN <<>>
    ELSE InsertByDist(SortByDist(SubSeq(s, 1, Len(s) - 1)), s[Len(s)])

WithDist(list, pos) ==
    [i \in 1..Len(list) |->
        [code |-> list[i].code,
         dist |-> haversine(pos.latitude, pos.longitude, list[i].lat, list[i].lon)]]

\* .slice(0, 2).map(st => st.code)
FirstTwoCodes(sorted) ==
    Arr([i \in 1..(IF Len(sorted) < 2 THEN Len(sorted) ELSE 2) |-> sorted[i].code])

\* a filter that keeps every station of the directory
IsAnyStation(st) == TRUE

IsTerminal(st) == st.code \in londonTerminals

\* sorted.slice(0, 2).map(st => st.code) over the directory dir
Closest(dir, pos) == FirstTwoCodes(SortByDist(WithDist(dir, pos)))

\* the same over the entries of dir that londonTerminals includes
LondonStations(dir, pos) == FirstTwoCodes(SortByDist(WithDist(SelectSeq(dir, IsTerminal), pos)))

\* the grid the geolocation success callback passes to setStations
SeededGrid(pos) == Arr(<<Closest(stationsData, pos), LondonStations(stationsData, pos)>>)

\* ------------------------------------------------------------ cell ids
DigitOf(n) == CASE n = 0 -> "0" [] n = 1 -> "1" [] n = 2 -> "2" [] n = 3 -> "3"
                [] n = 4 -> "4" [] n = 5 -> "5" [] n = 6 -> "6" [] n = 7 -> "7"
                [] n = 8 -> "8" [] n = 9 -> "9"

ValueOfDigit(d) == CHOOSE n \in 0..9 : DigitOf(n) = d

\* String(n) for a non-negative integer
RECURSIVE ToDecimal(_)
ToDecimal(n) == IF n < 10 THEN <<DigitOf(n)>> ELSE ToDecimal(n \div 10) \o <<DigitOf(n % 10)>>

\* Number(text): the empty text is 0, digits are read in base 10, anything
\* else is NaN (modelled as -1, which indexes no element)
RECURSIVE NumberOf(_, _)
NumberOf(t, acc) ==
    IF t = <<>> THEN acc
    ELSE IF Head(t) \in Digits THEN NumberOf(Tail(t), 10 * acc + ValueOfDigit(Head(t)))
    ELSE -1

\* text.split('-')
RECURSIVE SplitDash(_, _)
SplitDash(t, cur) ==
    IF t = <<>> THEN <<cur>>
    ELSE IF Head(t) = "-" THEN <<cur>> \o SplitDash(Tail(t), <<>>)
    ELSE SplitDash(Tail(t), Append(cur, Head(t)))

getId(row, col) == ToDecimal(row) \o <<"-">> \o ToDecimal(col)

parseId(id) ==
    LET parts == SplitDash(id, <<>>) IN
    [row |-> NumberOf(parts[1], 0),
     col |-> IF Len(parts) >= 2 THEN NumberOf(parts[2], 0) ELSE -1]

\* ------------------------------------------------------------------ state
VARIABLES
    stations,      \* the grid held by App (useState)
    storage,       \* localStorage item "stationGrid"
    pc,            \* startup initialiser: "Unmounted", "RequestingLocation", "GridSeeded"
    geoSupported,  \* whether navigator.geolocation exists
    geoRequests,   \* getCurrentPosition calls issued since the page was loaded
    crashed,       \* a render threw and the component tree was unmounted
    thrown,        \* the last handler call raised a TypeError
    ops,           \* user interactions so far
    reloads,       \* page reloads so far
    last,          \* the last step taken, its arguments and the grid before it
    board,         \* one TrainBoard component: its props, state, timers and requests
    forecast,      \* one run of the hourly-forecast extraction: input and result
    nearest        \* one run of the nearest-station selection: input and result

\* the variables of the components that a specification does not exercise
aux == <<board, forecast, nearest>>

vars == <<stations, storage, pc, geoSupported, geoRequests, crashed, thrown, ops, reloads, last,
          board, forecast, nearest>>

\* value of a component variable in the specifications that do not exercise it
Idle == [phase |-> "idle"]

EmptyGrid == Arr(<<>>)

NoItem == [present |-> FALSE, text |-> <<>>]
Item(text) == [present |-> TRUE, text |-> text]

\* last.op names the step, last.before is the grid held before it (for
\* "startup": the grid the previous page load held), last.saved is what
\* localStorage.getItem returned to the step
NoStep == [op |-> "none", before |-> EmptyGrid, row |-> -1, col |-> -1,
           toRow |-> -1, toCol |-> -1, value |-> Undefined, over |-> FALSE,
           saved |-> NoItem, pos |-> [latitude |-> 0, longitude |-> 0]]

Step(op, row, col, toRow, toCol, value, over) ==
    [op |-> op, before |-> stations, row |-> row, col |-> col,
     toRow |-> toRow, toCol |-> toCol, value |-> value, over |-> over,
     saved |-> NoItem, pos |-> NoStep.pos]

\* contents localStorage may hold when the page is first opened
InitialStorage ==
    { NoItem,
      \* [["KGX","EUS"]]
      Item(<<"[", "[", "\"", "K", "G", "X", "\"", ",", "\"", "E", "U", "S", "\"", "]", "]">>),
      \* [["KGX"]]
      Item(<<"[", "[", "\"", "K", "G", "X", "\"", "]", "]">>),
      \* [["K   (truncated)
      Item(<<"[", "[", "\"", "K">>),
      \* []
      Item(<<"[", "]">>),
      \* "KGX"
      Item(<<"\"", "K", "G", "X", "\"">>),
      \* ["KGX"]
      Item(<<"[", "\"", "K", "G", "X", "\"", "]">>) }

Init ==
    /\ stations = EmptyGrid
    /\ storage \in InitialStorage
    /\ pc = "Unmounted"
    /\ geoSupported \in BOOLEAN
    /\ geoRequests = 0
    /\ crashed = FALSE
    /\ thrown = FALSE
    /\ ops = 0
    /\ reloads = 0
    /\ last = NoStep
    /\ board = Idle
    /\ forecast = Idle
    /\ nearest = Idle

\* ----------------------------------------------------- render and persist
\* the render maps over every row (row.map), which throws for a row that is
\* not an array
Renders(g) == \A i \in 1..Len(g.v) : IsArray(g.v[i])

\* variant of Persisted: a grid of a single row is not written
PersistedMultiRowOnly(g, old) == IF Len(g.v) > 1 THEN Item(Stringify(g)) ELSE old

\* the persist effect: writes the grid unless it is empty
Persisted(g, old) == IF Len(g.v) > 0 THEN Item(Stringify(g)) ELSE old

\* ------------------------------------------- departure timers of the cells
\* the boards of a render: one per cell, keyed by the cell's position, with
\* the cell's code as stationCode; none when the render throws
RenderedBoards(g) ==
    IF ~Renders(g) THEN {}
    ELSE UNION { { [id |-> getId(i - 1, j - 1), stationCode |-> g.v[i].v[j]] :
                      j \in 1..Len(g.v[i].v) } : i \in 1..Len(g.v) }

\* a cleanup that runs only when the board is unmounted
ReleasedOnUnmount(timers, boards) ==
    { t \in timers : ~\E b \in boards : b.id = t.id }

\* the intervals cleared by the cleanup of the departures effect: those of
\* boards that are unmounted or whose stationCode changed
Released(timers, boards) ==
    { t \in timers : ~\E b \in boards : b.id = t.id /\ b.stationCode = t.stationCode }

\* the intervals set by the departures effect: those of boards that are
\* mounted or whose stationCode changed
Started(timers, boards) ==
    { b \in boards : ~\E t \in timers : t.id = b.id /\ t.stationCode = b.stationCode }

\* the departure timers after the render of grid g is committed
Committed(b, g) ==
    IF b = Idle THEN Idle
    ELSE [b EXCEPT !.timers = (b.timers \ Released(b.timers, RenderedBoards(g)))
                                  \cup Started(b.timers, RenderedBoards(g))]

\* the departure timers after the page is closed: none
PageClosed(b) == IF b = Idle THEN Idle ELSE [b EXCEPT !.timers = {}]

\* setStations(g) followed by the re-render, the persist effect and the
\* effects of the boards
SetStations(g) ==
    /\ stations' = g
    /\ crashed' = ~Renders(g)
    /\ storage' = IF Renders(g) THEN Persisted(g, storage) ELSE storage
    /\ board' = Committed(board, g)

\* ------------------------------------------------------ startup initialiser
\* variant of Loadable: a stored array of a single row is not installed
LoadableMultiRow(saved) ==
    /\ Truthy(saved)
    /\ LET p == JsonParse(saved.text) IN p.ok /\ IsArray(p.val) /\ Len(p.val.v) > 1

\* whether the load effect installs the stored item as the grid
Loadable(saved) ==
    /\ Truthy(saved)
    /\ LET p == JsonParse(saved.text) IN p.ok /\ IsArray(p.val) /\ Len(p.val.v) > 0

\* a load effect whose JSON.parse is not wrapped in try/catch
StartupParseThrows ==
    /\ pc = "Unmounted"
    /\ last' = [NoStep EXCEPT !.op = "startup", !.before = last.before, !.saved = storage]
    /\ UNCHANGED <<geoSupported, ops, reloads, forecast, nearest>>
    /\ IF Truthy(storage) /\ ~JsonParse(storage.text).ok
       THEN /\ thrown' = TRUE
            /\ crashed' = TRUE
            /\ pc' = "GridSeeded"
            /\ UNCHANGED <<stations, storage, geoRequests, board>>
       ELSE /\ thrown' = FALSE
            /\ IF Loadable(storage)
               THEN /\ SetStations(JsonParse(storage.text).val)
                    /\ pc' = "GridSeeded"
                    /\ UNCHANGED geoRequests
               ELSE IF geoSupported
               THEN /\ geoRequests' = geoRequests + 1
                    /\ pc' = "RequestingLocation"
                    /\ UNCHANGED <<stations, storage, crashed, board>>
               ELSE /\ SetStations(FallbackGrid)
                    /\ pc' = "GridSeeded"
                    /\ UNCHANGED geoRequests

\* mount: first render, load effect, persist effect
Startup ==
    /\ pc = "Unmounted"
    /\ last' = [NoStep EXCEPT !.op = "startup", !.before = last.before, !.saved = storage]
    /\ thrown' = FALSE
    /\ UNCHANGED <<geoSupported, ops, reloads, forecast, nearest>>
    /\ IF Loadable(storage)
       THEN /\ SetStations(JsonParse(storage.text).val)
            /\ pc' = "GridSeeded"
            /\ UNCHANGED geoRequests
       ELSE IF geoSupported
       THEN /\ geoRequests' = geoRequests + 1
            /\ pc' = "RequestingLocation"
            /\ UNCHANGED <<stations, storage, crashed, board>>
       ELSE /\ SetStations(FallbackGrid)
            /\ pc' = "GridSeeded"
            /\ UNCHANGED geoRequests

\* the stored item startup read, while startup is the last step taken
SavedAtStartup == IF last.op = "startup" THEN last.saved ELSE NoItem

\* a success callback after which the request still counts as pending
GeoSuccessStillPending ==
    /\ pc = "RequestingLocation"
    /\ \E pos \in Positions :
          /\ SetStations(SeededGrid(pos))
          /\ last' = [NoStep EXCEPT !.op = "geoSuccess", !.before = stations, !.pos = pos,
                                    !.saved = SavedAtStartup]
    /\ pc' = "RequestingLocation"
    /\ thrown' = FALSE
    /\ UNCHANGED <<geoSupported, geoRequests, ops, reloads, forecast, nearest>>

\* getCurrentPosition success callback
GeoSuccess ==
    /\ pc = "RequestingLocation"
    /\ \E pos \in Positions :
          /\ SetStations(SeededGrid(pos))
          /\ last' = [NoStep EXCEPT !.op = "geoSuccess", !.before = stations, !.pos = pos,
                                    !.saved = SavedAtStartup]
    /\ pc' = "GridSeeded"
    /\ thrown' = FALSE
    /\ UNCHANGED <<geoSupported, geoRequests, ops, reloads, forecast, nearest>>

\* an error callback that keeps a grid the user has edited meanwhile
GeoErrorKeepsEdits ==
    /\ pc = "RequestingLocation"
    /\ SetStations(IF stations = EmptyGrid THEN FallbackGrid ELSE stations)
    /\ pc' = "GridSeeded"
    /\ last' = [NoStep EXCEPT !.op = "geoError", !.before = stations,
                              !.saved = SavedAtStartup]
    /\ thrown' = FALSE
    /\ UNCHANGED <<geoSupported, geoRequests, ops, reloads, forecast, nearest>>

\* getCurrentPosition error callback (denied, unavailable, timeout)
GeoError ==
    /\ pc = "RequestingLocation"
    /\ SetStations(FallbackGrid)
    /\ pc' = "GridSeeded"
    /\ last' = [NoStep EXCEPT !.op = "geoError", !.before = stations,
                              !.saved = SavedAtStartup]
    /\ thrown' = FALSE
    /\ UNCHANGED <<geoSupported, geoRequests, ops, reloads, forecast, nearest>>

\* the page is reloaded: component state is lost, localStorage is kept
Reload ==
    /\ pc # "Unmounted"
    /\ reloads < MaxReloads
    /\ reloads' = reloads + 1
    /\ stations' = EmptyGrid
    /\ pc' = "Unmounted"
    /\ geoRequests' = 0
    /\ crashed' = FALSE
    /\ thrown' = FALSE
    /\ last' = [NoStep EXCEPT !.op = "reload", !.before = stations]
    /\ board' = PageClosed(board)
    /\ UNCHANGED <<storage, geoSupported, ops, forecast, nearest>>

\* ----------------------------------------------------------- grid mutations
Rows(g) == Len(g.v)
RowLen(g, r) == Len(g.v[r + 1].v)
HasRow(g, r) == r >= 0 /\ r < Rows(g)
HasCell(g, r, c) == HasRow(g, r) /\ c >= 0 /\ c < RowLen(g, r)
CellAt(g, r, c) == g.v[r + 1].v[c + 1]

\* updated[rowIndex][colIndex] = x, for a row that exists
SetCell(g, r, c, x) == Arr([g.v EXCEPT ![r + 1] = ArraySet(g.v[r + 1], c, x)])

\* variant of AddColumn: the new cell is put in front of each row
AddColumnInFront(g) == Arr([i \in 1..Len(g.v) |-> Arr(<<KGX>> \o g.v[i].v)])

\* stations.map(row => [...row, 'KGX'])
AddColumn(g) == Arr([i \in 1..Len(g.v) |-> Arr(Append(g.v[i].v, KGX))])

\* a row of two KGX cells whatever the width of the first row
AddRowOfTwo(g) == Arr(Append(g.v, Arr(<<KGX, KGX>>)))

\* new Array(updated[0]?.length || 2).fill('KGX') pushed onto a copy of the rows
AddRow(g) ==
    LET width == IF Rows(g) > 0 /\ RowLen(g, 0) # 0 THEN RowLen(g, 0) ELSE 2
    IN Arr(Append(g.v, Arr([i \in 1..width |-> KGX])))

NonEmptyRow(row) == Len(row.v) > 0

\* variant of RemoveCell: rows left empty are kept
RemoveCellKeepEmptyRows(g, r, c) ==
    LET updated == [g.v EXCEPT ![r + 1] = ArraySplice1(g.v[r + 1], c)]
    IN IF \A i \in 1..Len(updated) : Len(updated[i].v) = 0
       THEN Arr(<<Arr(<<KGX>>)>>)
       ELSE Arr(updated)

\* the grid removeStation passes to setStations, for a row that exists
RemoveCell(g, r, c) ==
    LET updated == [g.v EXCEPT ![r + 1] = ArraySplice1(g.v[r + 1], c)]
        filtered == SelectSeq(updated, NonEmptyRow)
    IN IF Len(filtered) = 0 \/ (\A i \in 1..Len(filtered) : Len(filtered[i].v) = 0)
       THEN Arr(<<Arr(<<KGX>>)>>)
       ELSE Arr(filtered)

\* the three assignments of handleDragEnd, for rows that exist
SwapCells(g, from, to) ==
    LET temp == ArrayGet(g.v[from.row + 1], from.col)
        step1 == SetCell(g, from.row, from.col, ArrayGet(g.v[to.row + 1], to.col))
    IN SetCell(step1, to.row, to.col, temp)

\* a handler call that raised a TypeError before reaching setStations
Throws ==
    /\ thrown' = TRUE
    /\ UNCHANGED <<stations, storage, crashed, board>>

Mounted == pc # "Unmounted" /\ ~crashed

Interaction(step) ==
    /\ Mounted
    /\ ops < MaxOps
    /\ ops' = ops + 1
    /\ last' = step
    /\ UNCHANGED <<pc, geoSupported, geoRequests, reloads, forecast, nearest>>

handleStationChange(rowIndex, colIndex, value) ==
    /\ Interaction(Step("setCode", rowIndex, colIndex, -1, -1, value, FALSE))
    /\ IF ~HasRow(stations, rowIndex)
       THEN Throws
       ELSE /\ SetStations(SetCell(stations, rowIndex, colIndex, toUpperCase(value)))
            /\ thrown' = FALSE

addStationHorizontal ==
    /\ Interaction(Step("addColumn", -1, -1, -1, -1, Undefined, FALSE))
    /\ SetStations(AddColumn(stations))
    /\ thrown' = FALSE

addStationVertical ==
    /\ Interaction(Step("addRow", -1, -1, -1, -1, Undefined, FALSE))
    /\ SetStations(AddRow(stations))
    /\ thrown' = FALSE

removeStation(rowIndex, colIndex) ==
    /\ Interaction(Step("removeCell", rowIndex, colIndex, -1, -1, Undefined, FALSE))
    /\ IF ~HasRow(stations, rowIndex)
       THEN Throws
       ELSE /\ SetStations(RemoveCell(stations, rowIndex, colIndex))
            /\ thrown' = FALSE

\* event.over is null when the drag ended outside every cell
NoOver == [present |-> FALSE, id |-> <<>>]
Over(id) == [present |-> TRUE, id |-> id]

handleDragEnd(active, over) ==
    LET from == parseId(active)
        to == parseId(over.id)
    IN /\ Interaction(Step("swapCells", from.row, from.col,
                           IF over.present THEN to.row ELSE -1,
                           IF over.present THEN to.col ELSE -1,
                           Undefined, over.present))
       /\ IF ~over.present \/ active = over.id
          THEN /\ thrown' = FALSE
               /\ UNCHANGED <<stations, storage, crashed, board>>
          ELSE IF ~HasRow(stations, from.row) \/ ~HasRow(stations, to.row)
          THEN Throws
          ELSE /\ SetStations(SwapCells(stations, from, to))
               /\ thrown' = FALSE

\* ------------------------------------------------------ user interface
\* what the user can type into a station-code input (at most InputMaxLength
\* characters)
InputValues ==
    { x \in { Str(<<>>), Str(<<"k", "g", "x">>), Str(<<"e", "U", "s">>),
              Str(<<"sz", "sz">>), Str(<<"k", "g", "x", "x">>) } :
        Len(x.v) <= InputMaxLength }

\* the cells rendered for the current grid
Cells(g) == { rc \in (0..(Rows(g) - 1)) \X (0..9) : HasCell(g, rc[1], rc[2]) }

\* onChange of a rendered cell's input
InputChange ==
    \E rc \in Cells(stations), value \in InputValues :
        handleStationChange(rc[1], rc[2], value)

\* click on a rendered cell's remove button
ClickRemove == \E rc \in Cells(stations) : removeStation(rc[1], rc[2])

ClickAddRight == addStationHorizontal

ClickAddBelow == addStationVertical

\* a drag started on a rendered cell ends over a rendered cell or over none
DragEnd ==
    \E a \in Cells(stations) :
        \/ handleDragEnd(getId(a[1], a[2]), NoOver)
        \/ \E o \in Cells(stations) : handleDragEnd(getId(a[1], a[2]), Over(getId(o[1], o[2])))

Next ==
    \/ Startup
    \/ GeoSuccess
    \/ GeoError
    \/ Reload
    \/ InputChange
    \/ ClickRemove
    \/ ClickAddRight
    \/ ClickAddBelow
    \/ DragEnd

Spec == Init /\ [][Next]_vars

\* a step in which the effects of the first render run: the initialiser
\* either installs a grid or leaves a location request pending
MountEffectsRun == pc = "Unmounted" /\ pc' \in {"RequestingLocation", "GridSeeded"}

\* the application on a platform that runs the effects of the first render
\* and ends every location request that is still pending with the error
\* callback (the request carries timeout: 10000), unless the position
\* arrives before
SpecFair == Spec /\ WF_pc(MountEffectsRun) /\ WF_vars(GeoError)

\* the application with the departure timers of its cells: none before the
\* first render
InitCells ==
    /\ stations = EmptyGrid
    /\ storage \in InitialStorage
    /\ pc = "Unmounted"
    /\ geoSupported \in BOOLEAN
    /\ geoRequests = 0
    /\ crashed = FALSE
    /\ thrown = FALSE
    /\ ops = 0
    /\ reloads = 0
    /\ last = NoStep
    /\ board = [phase |-> "cells", timers |-> {}]
    /\ forecast = Idle
    /\ nearest = Idle

SpecCells == InitCells /\ [][Next]_vars

\* -------------------------------------- handlers called with any arguments
Indices == 0..MaxIndex

CallHandleStationChange ==
    /\ ops < MaxCalls
    /\ \E r \in Indices, c \in Indices, value \in InputValues : handleStationChange(r, c, value)

CallRemoveStation ==
    /\ ops < MaxCalls
    /\ \E r \in Indices, c \in Indices : removeStation(r, c)

CallAddStationHorizontal == ops < MaxCalls /\ addStationHorizontal

CallAddStationVertical == ops < MaxCalls /\ addStationVertical

CallHandleDragEnd ==
    /\ ops < MaxCalls
    /\ \E r \in Indices, c \in Indices :
        \/ handleDragEnd(getId(r, c), NoOver)
        \/ \E r2 \in Indices, c2 \in Indices : handleDragEnd(getId(r, c), Over(getId(r2, c2)))

NextApi ==
    \/ Startup
    \/ GeoSuccess
    \/ GeoError
    \/ CallHandleStationChange
    \/ CallRemoveStation
    \/ CallAddStationHorizontal
    \/ CallAddStationVertical
    \/ CallHandleDragEnd

SpecApi == Init /\ [][NextApi]_vars

\* --------------------------------------- the grid while a component runs
gridVars == <<stations, storage, pc, geoSupported, geoRequests, crashed, thrown, ops, reloads, last>>

\* the grid of an application that has not started
GridNotStarted ==
    /\ stations = EmptyGrid
    /\ storage = NoItem
    /\ pc = "Unmounted"
    /\ geoSupported = TRUE
    /\ geoRequests = 0
    /\ crashed = FALSE
    /\ thrown = FALSE
    /\ ops = 0
    /\ reloads = 0
    /\ last = NoStep

\* ------------------------------------------- nearest-station selection
\* stations a directory may list; STP stands where KGX stands
StationPool ==
    { stationsData[i] : i \in 1..Len(stationsData) } \cup
    { [code |-> Str(<<"S", "T", "P">>), lat |-> 51531, lon |-> -123] }

\* directories of two to MaxDirLen entries, repeated entries included
Directories == UNION { [1..n -> StationPool] : n \in 2..MaxDirLen }

InitNearest ==
    /\ GridNotStarted
    /\ board = Idle
    /\ forecast = Idle
    /\ \E dir \in Directories, pos \in Positions :
          nearest = [phase |-> "input", dir |-> dir, pos |-> pos,
                     closest |-> Undefined, londonStations |-> Undefined]

\* the two selections of the geolocation success callback over nearest.dir
SelectNearest ==
    /\ nearest.phase = "input"
    /\ nearest' = [nearest EXCEPT !.phase = "selected",
                                  !.closest = Closest(nearest.dir, nearest.pos),
                                  !.londonStations = LondonStations(nearest.dir, nearest.pos)]
    /\ UNCHANGED <<gridVars, board, forecast>>

NextNearest == SelectNearest

SpecNearest == InitNearest /\ [][NextNearest]_vars


\* ------------------------------------------------ departures of one board
\* station codes the cell of the board may hold
BoardCodes == {KGX, EUS}

\* a JSON object as the departures handler reads it: a field that is
\* missing reads as undefined
Object(locationName, trainServices) ==
    [k |-> "obj", locationName |-> locationName, trainServices |-> trainServices]

\* one departure of the station with this code
Service(code, n) == [k |-> "service", station |-> code, n |-> n]

LocationName(code) == Str(<<"L", "o", "n", "d", "o", "n", " ">> \o code.v)

\* a body that is not JSON: res.json() rejects
NotJson == [k |-> "text", v |-> <<"<", "h", "t", "m", "l", ">">>]

\* the number of rows every departures request asks for: numRows=8
numRows == 8

\* departure boards the server may send for a code, one of them with one
\* service more than the request asked for
DepartureBoards(code) ==
    { Object(LocationName(code), Arr(<<Service(code, 1)>>)),
      Object(LocationName(code), Arr(<<Service(code, 2), Service(code, 1)>>)),
      Object(LocationName(code), Arr([n \in 1..(numRows + 1) |-> Service(code, n)])),
      Object(LocationName(code), Null) }

\* how a fetch for a code may end: rejected, or resolved with a success or a
\* non-success status and some body
Responses(code) ==
    { [rejected |-> TRUE, ok |-> FALSE, body |-> Undefined] } \cup
    { [rejected |-> FALSE, ok |-> TRUE, body |-> b] :
        b \in DepartureBoards(code) \cup {Object(Undefined, Undefined), Null, NotJson} } \cup
    { [rejected |-> FALSE, ok |-> FALSE, body |-> b] :
        b \in {Object(Undefined, Undefined), NotJson} }

FailedToFetchDepartures ==
    Str(<<"F", "a", "i", "l", "e", "d", " ", "t", "o", " ", "f", "e", "t", "c", "h", " ",
          "d", "e", "p", "a", "r", "t", "u", "r", "e", "s">>)

NoRequest == [id |-> 0, code |-> Undefined, initial |-> FALSE]

\* the last step of the board: the request and response it dealt with, what
\* was shown before it and the request that had set the services shown then
NoEvent == [op |-> "none", request |-> NoRequest, response |-> Undefined, applied |-> FALSE,
            before |-> Undefined, replaced |-> NoRequest]

\* the part of the component state that a response may change
Shown(b) == [stationName |-> b.stationName, services |-> b.services, error |-> b.error]

\* useState initial values of TrainBoard, before it is mounted
BoardUnmounted ==
    [phase |-> "unmounted", stationCode |-> Undefined,
     services |-> Arr(<<>>), stationName |-> Str(<<>>), loading |-> TRUE, error |-> Null,
     timers |-> {}, requests |-> {}, issued |-> 0, changes |-> 0,
     nameFrom |-> NoRequest, servicesFrom |-> NoRequest, errorFrom |-> NoRequest,
     first |-> NoRequest, event |-> NoEvent]

\* the grid of an application that started without a stored layout and
\* without geolocation support: the hardcoded defaults, shown and stored
GridShowsDefaults ==
    /\ stations = FallbackGrid
    /\ storage = Persisted(FallbackGrid, NoItem)
    /\ pc = "GridSeeded"
    /\ geoSupported = FALSE
    /\ geoRequests = 0
    /\ crashed = FALSE
    /\ thrown = FALSE
    /\ ops = 0
    /\ reloads = 0
    /\ last = [NoStep EXCEPT !.op = "startup"]

InitBoard ==
    /\ GridShowsDefaults
    /\ board = BoardUnmounted
    /\ forecast = Idle
    /\ nearest = Idle

\* a cleanup that leaves the interval running
CleanupKeepsInterval(timers) == timers

\* the effect's cleanup: clearInterval(interval)
Cleanup(timers) == {}

\* the departures effect run for code on the board b: setLoading(true),
\* setError(null), the immediate fetch and setInterval
DeparturesEffect(b, code, op) ==
    LET request == [id |-> b.issued + 1, code |-> code, initial |-> TRUE]
    IN [b EXCEPT !.phase = "mounted",
                 !.stationCode = code,
                 !.loading = TRUE,
                 !.error = Null,
                 !.errorFrom = NoRequest,
                 !.requests = @ \cup {request},
                 !.issued = @ + 1,
                 !.timers = Cleanup(@) \cup {code},
                 !.first = request,
                 !.event = [NoEvent EXCEPT !.op = op, !.request = request, !.before = Shown(b)]]

\* the cell appears with a code: first render and first run of the effect
MountBoard ==
    /\ board.phase = "unmounted"
    /\ \E code \in BoardCodes : board' = DeparturesEffect(board, code, "mount")
    /\ UNCHANGED <<gridVars, forecast, nearest>>

\* the code of the cell changes: cleanup of the old effect, then the effect
\* runs again for the new code; the component stays mounted
ChangeCode ==
    /\ board.phase = "mounted"
    /\ board.changes < MaxChanges
    /\ board.issued < MaxRequests
    /\ \E code \in BoardCodes \ {board.stationCode} :
          board' = [DeparturesEffect(board, code, "changeCode") EXCEPT !.changes = @ + 1]
    /\ UNCHANGED <<gridVars, forecast, nearest>>

\* a teardown that also removes the stored layout
RemoveBoardAndLayout ==
    /\ board.phase = "mounted"
    /\ board' = [board EXCEPT !.phase = "removed",
                              !.timers = Cleanup(@),
                              !.event = [NoEvent EXCEPT !.op = "remove", !.before = Shown(board)]]
    /\ storage' = NoItem
    /\ UNCHANGED <<stations, pc, geoSupported, geoRequests, crashed, thrown, ops, reloads, last,
                   forecast, nearest>>

\* the cell is removed: the component unmounts and the cleanup runs
RemoveBoard ==
    /\ board.phase = "mounted"
    /\ board' = [board EXCEPT !.phase = "removed",
                              !.timers = Cleanup(@),
                              !.event = [NoEvent EXCEPT !.op = "remove", !.before = Shown(board)]]
    /\ UNCHANGED <<gridVars, forecast, nearest>>

\* an interval that skips its fetch while a request is in flight
TickUnlessInFlight ==
    /\ board.issued < MaxRequests
    /\ board.requests = {}
    /\ \E code \in board.timers :
          LET request == [id |-> board.issued + 1, code |-> code, initial |-> FALSE]
          IN board' = [board EXCEPT !.requests = @ \cup {request},
                                    !.issued = @ + 1,
                                    !.event = [NoEvent EXCEPT !.op = "tick", !.request = request,
                                                              !.before = Shown(board)]]
    /\ UNCHANGED <<gridVars, forecast, nearest>>

\* a running interval fires: fetch for the code its closure holds
Tick ==
    /\ board.issued < MaxRequests
    /\ \E code \in board.timers :
          LET request == [id |-> board.issued + 1, code |-> code, initial |-> FALSE]
          IN board' = [board EXCEPT !.requests = @ \cup {request},
                                    !.issued = @ + 1,
                                    !.event = [NoEvent EXCEPT !.op = "tick", !.request = request,
                                                              !.before = Shown(board)]]
    /\ UNCHANGED <<gridVars, forecast, nearest>>

\* whether the promise chain ends in .catch: fetch rejected, res.json()
\* rejected, or reading a field of null threw
Caught(response) == response.rejected \/ response.body = NotJson \/ response.body = Null

\* data.trainServices || []
ServicesOf(data) ==
    IF data.trainServices \in {Undefined, Null} THEN Arr(<<>>) ELSE data.trainServices

\* handlers whose success branch also clears the error
HandledClearsError(b, request, response) ==
    LET done == IF request.initial THEN [b EXCEPT !.loading = FALSE] ELSE b
    IN IF Caught(response)
       THEN [done EXCEPT !.error = FailedToFetchDepartures, !.errorFrom = request]
       ELSE [done EXCEPT !.stationName = response.body.locationName,
                         !.services = ServicesOf(response.body),
                         !.nameFrom = request,
                         !.servicesFrom = request,
                         !.error = Null]

\* the state after the handlers of request have run on response; the
\* handlers of the first fetch of an effect also call setLoading(false)
Handled(b, request, response) ==
    LET done == IF request.initial THEN [b EXCEPT !.loading = FALSE] ELSE b
    IN IF Caught(response)
       THEN [done EXCEPT !.error = FailedToFetchDepartures, !.errorFrom = request]
       ELSE [done EXCEPT !.stationName = response.body.locationName,
                         !.services = ServicesOf(response.body),
                         !.nameFrom = request,
                         !.servicesFrom = request]

\* a fetch settles; the state setters of an unmounted component do nothing
Respond ==
    /\ \E request \in board.requests : \E response \in Responses(request.code) :
          LET settled == [board EXCEPT !.requests = @ \ {request}]
              after == IF board.phase = "mounted"
                       THEN Handled(settled, request, response)
                       ELSE settled
          IN board' = [after EXCEPT !.event = [op |-> "respond", request |-> request,
                                               response |-> response,
                                               applied |-> board.phase = "mounted",
                                               before |-> Shown(board),
                                               replaced |-> board.servicesFrom]]
    /\ UNCHANGED <<gridVars, forecast, nearest>>

NextBoard ==
    \/ MountBoard
    \/ ChangeCode
    \/ RemoveBoard
    \/ Tick
    \/ Respond

SpecBoard == InitBoard /\ [][NextBoard]_vars


\* ------------------------------------------- hourly-forecast extraction
\* hours are counted from 2026-11-01T00:00

\* two decimal digits
TwoDigits(n) == <<DigitOf(n \div 10), DigitOf(n % 10)>>

\* the date and hour of hour h as ISO 8601 writes them: 2026-11-ddThh
DateAndHour(h) ==
    <<"2", "0", "2", "6", "-", "1", "1", "-">> \o TwoDigits(1 + h \div 24) \o <<"T">> \o
    TwoDigits(h % 24)

\* an entry of hourly.time for hour h
HourlyTime(h) == Str(DateAndHour(h) \o <<":", "0", "0">>)

\* new Date().toISOString() some minutes into hour h
toISOString(h) ==
    Str(DateAndHour(h) \o <<":", "2", "3", ":", "4", "5", ".", "6", "7", "8", "Z">>)

\* String.prototype.slice(0, end)
slice(s, end) == Str(SubSeq(s.v, 1, IF end < Len(s.v) THEN end ELSE Len(s.v)))

\* String.prototype.startsWith
startsWith(s, prefix) ==
    /\ Len(prefix.v) <= Len(s.v)
    /\ SubSeq(s.v, 1, Len(prefix.v)) = prefix.v

\* Array.prototype.findIndex with t => t.startsWith(prefix): the zero-based
\* index of the first match, -1 when there is none
findIndex(time, prefix) ==
    LET matches == { i \in 1..Len(time) : startsWith(time[i], prefix) }
    IN IF matches = {} THEN -1
       ELSE (CHOOSE i \in matches : \A j \in matches : i <= j) - 1

\* length of the prefix of the ISO string compared: date and hour
HourPrefixLength == 13

\* hours taken by the weather panel and by the station header
PanelHours == 24
HeaderHours == 6

\* the loop for (i = idx + 1; i <= idx + count; i++) from index i on: it
\* pushes the entry at i when hourly.time[i] is truthy
RECURSIVE PushHours(_, _, _)
PushHours(hourly, i, end) ==
    IF i > end THEN <<>>
    ELSE (IF i >= 0 /\ i < Len(hourly.time) /\ hourly.time[i + 1].v # <<>>
          THEN << [time |-> hourly.time[i + 1], temperature |-> hourly.temperature_2m[i + 1]] >>
          ELSE <<>>)
         \o PushHours(hourly, i + 1, end)

\* the hours array built from the response at the time now
ExtractHours(hourly, now, count) ==
    LET idx == findIndex(hourly.time, slice(now, HourPrefixLength))
    IN PushHours(hourly, idx + 1, idx + count)

\* the hourly part of a forecast of n hours that begins at hour start
Hourly(start, n) ==
    [time |-> [i \in 1..n |-> HourlyTime(start + i - 1)],
     temperature_2m |-> [i \in 1..n |-> Num(ToDecimal(start + i - 1))]]

InitHourly ==
    /\ GridNotStarted
    /\ board = Idle
    /\ nearest = Idle
    /\ \E start \in 0..MaxStart, n \in 0..MaxHours, h \in 0..MaxNow,
          count \in {PanelHours, HeaderHours} :
          forecast = [phase |-> "fetched", hourly |-> Hourly(start, n), start |-> start,
                      hour |-> h, now |-> toISOString(h), count |-> count, hours |-> <<>>]

\* the then-handler of the weather fetch builds the hours array
Extract ==
    /\ forecast.phase = "fetched"
    /\ forecast' = [forecast EXCEPT !.phase = "extracted",
                                    !.hours = ExtractHours(forecast.hourly, forecast.now,
                                                           forecast.count)]
    /\ UNCHANGED <<gridVars, board, nearest>>

NextHourly == Extract

SpecHourly == InitHourly /\ [][NextHourly]_vars


\* the render guard of the departures table: !loading && !error
TableShown(b) == ~b.loading /\ b.error = Null

\* ------------------------------------------------------ weather pollers
\* coordinates are in ten-thousandths of a degree

\* the fallback location of the weather panel: London, 51.5074, -0.1278
London == [lat |-> 515074, lon |-> -1278]

\* positions the device may report to the weather panel
PanelPositions == { [latitude |-> 539600, longitude |-> -10800] }

\* stationCoordinates[stationCode]: undefined for a code it does not list
stationCoordinates(code) ==
    CASE code = KGX -> [lat |-> 515320, lon |-> -1233]
      [] code = EUS -> [lat |-> 515285, lon |-> -1339]
      [] code = PAD -> [lat |-> 515154, lon |-> -1755]
      [] code = WAT -> [lat |-> 515033, lon |-> -1145]
      [] OTHER -> Undefined

\* station codes the cell of the header may hold: one listed, one not
HeaderCodes == {KGX, YRK}

GeolocationNotSupported ==
    Str(<<"G", "e", "o", "l", "o", "c", "a", "t", "i", "o", "n", " ", "n", "o", "t", " ",
          "s", "u", "p", "p", "o", "r", "t", "e", "d">>)

LocationUnavailable ==
    Str(<<"L", "o", "c", "a", "t", "i", "o", "n", " ", "u", "n", "a", "v", "a", "i", "l",
          "a", "b", "l", "e", " ", "-", " ", "s", "h", "o", "w", "i", "n", "g", " ", "L",
          "o", "n", "d", "o", "n", " ", "w", "e", "a", "t", "h", "e", "r">>)

FailedToFetchWeather ==
    Str(<<"F", "a", "i", "l", "e", "d", " ", "t", "o", " ", "f", "e", "t", "c", "h", " ",
          "w", "e", "a", "t", "h", "e", "r">>)

\* current conditions as Open-Meteo sends them
CurrentConditions == [temperature_2m |-> Num(ToDecimal(12)), weathercode |-> Num(ToDecimal(3))]

\* a forecast body: current conditions and three hours from hour 0 on
ForecastBody == [k |-> "obj", current |-> CurrentConditions, hourly |-> Hourly(0, 3)]

\* a body without current conditions, as an error document is
NoForecastBody == [k |-> "obj", current |-> Undefined, hourly |-> Undefined]

\* how a weather fetch may end
WeatherResponses ==
    { [rejected |-> TRUE, body |-> Undefined],
      [rejected |-> FALSE, body |-> NotJson],
      [rejected |-> FALSE, body |-> NoForecastBody],
      [rejected |-> FALSE, body |-> ForecastBody] }

\* useState initial values of WeatherPanel
PanelUnmounted ==
    [phase |-> "unmounted", pending |-> FALSE, location |-> Null, locError |-> Null,
     loading |-> TRUE, error |-> Null, weather |-> Null, hourly |-> <<>>,
     requests |-> {}, issued |-> 0]

\* the weather state of TrainBoard before it is mounted
HeaderUnmounted ==
    [phase |-> "unmounted", stationCode |-> Undefined, weather |-> Null,
     weatherLoading |-> TRUE, timers |-> {}, requests |-> {}, issued |-> 0]

NoWeatherEvent == [op |-> "none", panelIssued |-> 0, headerIssued |-> 0]

WeatherEvent(op) ==
    [op |-> op, panelIssued |-> forecast.panel.issued, headerIssued |-> forecast.header.issued]

InitWeather ==
    /\ GridShowsDefaults
    /\ board = Idle
    /\ nearest = Idle
    /\ \E supported \in BOOLEAN :
          forecast = [phase |-> "weather", supported |-> supported, intervals |-> 0,
                      panel |-> PanelUnmounted, header |-> HeaderUnmounted,
                      event |-> NoWeatherEvent]

\* setLocation(location) and the weather effect that the new location
\* triggers: setLoading(true), setError(null) and the fetch
Located(p, location) ==
    [p EXCEPT !.location = location,
              !.pending = FALSE,
              !.loading = TRUE,
              !.error = Null,
              !.requests = @ \cup {[id |-> p.issued + 1, at |-> location]},
              !.issued = @ + 1]

\* the panel mounts: with no location yet the weather effect only calls
\* setLoading(false); the geolocation effect asks for the position or,
\* without geolocation, sets the error and the London fallback
MountPanel ==
    /\ forecast.panel.phase = "unmounted"
    /\ LET mounted == [forecast.panel EXCEPT !.phase = "mounted", !.loading = FALSE]
       IN forecast' =
            [forecast EXCEPT
               !.panel = IF forecast.supported
                         THEN [mounted EXCEPT !.pending = TRUE]
                         ELSE Located([mounted EXCEPT !.locError = GeolocationNotSupported],
                                      London),
               !.event = WeatherEvent("mountPanel")]
    /\ UNCHANGED <<gridVars, board, nearest>>

\* getCurrentPosition success callback of the panel
PanelGeoSuccess ==
    /\ forecast.panel.pending
    /\ \E pos \in PanelPositions :
          forecast' =
            [forecast EXCEPT
               !.panel = Located([@ EXCEPT !.locError = Null],
                                 [lat |-> pos.latitude, lon |-> pos.longitude]),
               !.event = WeatherEvent("panelGeoSuccess")]
    /\ UNCHANGED <<gridVars, board, nearest>>

\* an error callback that leaves the panel without a location
PanelGeoErrorNoFallback ==
    /\ forecast.panel.pending
    /\ forecast' = [forecast EXCEPT !.panel = [@ EXCEPT !.locError = LocationUnavailable,
                                                        !.pending = FALSE],
                                    !.event = WeatherEvent("panelGeoError")]
    /\ UNCHANGED <<gridVars, board, nearest>>

\* getCurrentPosition error callback of the panel
PanelGeoError ==
    /\ forecast.panel.pending
    /\ forecast' =
         [forecast EXCEPT
            !.panel = Located([@ EXCEPT !.locError = LocationUnavailable], London),
            !.event = WeatherEvent("panelGeoError")]
    /\ UNCHANGED <<gridVars, board, nearest>>

\* whether the chain of the panel ends in .catch: fetch or res.json()
\* rejected, or the body has no current conditions
PanelCaught(response) ==
    response.rejected \/ response.body = NotJson \/ response.body.current = Undefined

\* the weather fetch of the panel settles, hour 0 being the current hour
PanelRespond ==
    /\ \E request \in forecast.panel.requests, response \in WeatherResponses :
          LET settled == [forecast.panel EXCEPT !.requests = @ \ {request}, !.loading = FALSE]
          IN forecast' =
               [forecast EXCEPT
                  !.panel = IF PanelCaught(response)
                            THEN [settled EXCEPT !.error = FailedToFetchWeather]
                            ELSE [settled EXCEPT
                                    !.weather = response.body.current,
                                    !.hourly = ExtractHours(response.body.hourly, toISOString(0),
                                                            PanelHours)],
                  !.event = WeatherEvent("panelRespond")]
    /\ UNCHANGED <<gridVars, board, nearest>>

\* fetchWeather of the header: setWeatherLoading(true) and the fetch
FetchWeather(h) ==
    [h EXCEPT !.weatherLoading = TRUE,
              !.requests = @ \cup {[id |-> h.issued + 1, at |-> stationCoordinates(h.stationCode)]},
              !.issued = @ + 1]

\* a board mounts: for a code without coordinates the weather effect only
\* calls setWeatherLoading(false), for the others it fetches and sets the
\* hourly interval
MountHeader ==
    /\ forecast.header.phase = "unmounted"
    /\ \E code \in HeaderCodes :
          LET mounted == [forecast.header EXCEPT !.phase = "mounted", !.stationCode = code]
          IN forecast' =
               [forecast EXCEPT
                  !.header = IF stationCoordinates(code) = Undefined
                             THEN [mounted EXCEPT !.weatherLoading = FALSE]
                             ELSE [FetchWeather(mounted) EXCEPT !.timers = {code}],
                  !.event = WeatherEvent("mountHeader")]
    /\ UNCHANGED <<gridVars, board, nearest>>

\* the board is removed: clearInterval(weatherInterval)
RemoveHeader ==
    /\ forecast.header.phase = "mounted"
    /\ forecast' = [forecast EXCEPT !.header = [@ EXCEPT !.phase = "removed", !.timers = {}],
                                    !.event = WeatherEvent("removeHeader")]
    /\ UNCHANGED <<gridVars, board, nearest>>

\* the weather fetch of the header settles
HeaderRespond ==
    /\ \E request \in forecast.header.requests, response \in WeatherResponses :
          LET settled == [forecast.header EXCEPT !.requests = @ \ {request}]
              caught == response.rejected \/ response.body = NotJson
          IN forecast' =
               [forecast EXCEPT
                  !.header = IF forecast.header.phase # "mounted" THEN settled
                             ELSE IF caught \/ response.body.current = Undefined
                             THEN [settled EXCEPT !.weatherLoading = FALSE]
                             ELSE [settled EXCEPT !.weatherLoading = FALSE,
                                                  !.weather = response.body.current],
                  !.event = WeatherEvent("headerRespond")]
    /\ UNCHANGED <<gridVars, board, nearest>>

\* one poll interval of the weather (an hour) passes: every interval that
\* is set fires; the panel sets none
IntervalElapses ==
    /\ forecast.intervals < MaxIntervals
    /\ forecast.panel.phase = "mounted" \/ forecast.header.phase = "mounted"
    /\ forecast' =
         [forecast EXCEPT
            !.intervals = @ + 1,
            !.header = IF forecast.header.timers = {} THEN @ ELSE FetchWeather(@),
            !.event = WeatherEvent("interval")]
    /\ UNCHANGED <<gridVars, board, nearest>>

NextWeather ==
    \/ MountPanel
    \/ PanelGeoSuccess
    \/ PanelGeoError
    \/ PanelRespond
    \/ MountHeader
    \/ RemoveHeader
    \/ HeaderRespond
    \/ IntervalElapses

SpecWeather == InitWeather /\ [][NextWeather]_vars


\* ================================================================ claims
MutationOps == {"setCode", "addColumn", "addRow", "removeCell", "swapCells"}

\* s without its i-th element (1-based)
SeqWithout(s, i) == [j \in 1..(Len(s) - 1) |-> IF j < i THEN s[j] ELSE s[j + 1]]

\* an array of non-empty arrays of strings
IsGrid(x) ==
    /\ IsArray(x)
    /\ Len(x.v) > 0
    /\ \A i \in 1..Len(x.v) :
        /\ IsArray(x.v[i])
        /\ Len(x.v[i].v) > 0
        /\ \A j \in 1..Len(x.v[i].v) : x.v[i].v[j].k = "str"

SameShape(g, h) ==
    /\ Rows(g) = Rows(h)
    /\ \A i \in 1..Rows(g) : Len(g.v[i].v) = Len(h.v[i].v)

Ragged(g) == \E i, j \in 1..Rows(g) : Len(g.v[i].v) # Len(g.v[j].v)

LowerCaseChars == {"k", "g", "x", "e", "s", "sz"}

IsUpperCase(code) == \A i \in 1..Len(code.v) : code.v[i] \notin LowerCaseChars

\* C1: after every grid mutation (setCode, addColumn, addRow, removeCell,
\* swapCells) the grid has at least one row and every row has at least one
\* cell.
C1_GridNeverEmptyAfterMutation ==
    last.op \in MutationOps =>
        /\ Rows(stations) >= 1
        /\ \A i \in 1..Rows(stations) : Len(stations.v[i].v) >= 1

\* C2: removeCell on an existing cell removes exactly that cell and keeps
\* every other cell and row in order; a row left empty is dropped; removing
\* the only remaining cell of the grid yields [["KGX"]].
C2_RemoveCell ==
    (last.op = "removeCell" /\ HasCell(last.before, last.row, last.col)) =>
        LET b == last.before
            r == last.row + 1
            c == last.col + 1
        IN IF Rows(b) = 1 /\ Len(b.v[1].v) = 1
           THEN stations = Arr(<<Arr(<<KGX>>)>>)
           ELSE IF Len(b.v[r].v) = 1
           THEN stations = Arr(SeqWithout(b.v, r))
           ELSE stations = Arr([b.v EXCEPT ![r] = Arr(SeqWithout(b.v[r].v, c))])

\* witness of C2: the only cell of a row of a multi-row grid was removed and
\* the row was dropped
C2_Witness ==
    /\ last.op = "removeCell"
    /\ Rows(last.before) >= 2
    /\ HasCell(last.before, last.row, last.col)
    /\ RowLen(last.before, last.row) = 1
    /\ Rows(stations) = Rows(last.before) - 1

\* the JSON text [["KGX","EUS"]]
KgxEusText ==
    <<"[", "[", "\"", "K", "G", "X", "\"", ",", "\"", "E", "U", "S", "\"", "]", "]">>

\* the stored item read at startup is the JSON text of a grid
ValidPersisted(saved) ==
    /\ Truthy(saved)
    /\ JsonParse(saved.text).ok
    /\ IsGrid(JsonParse(saved.text).val)

C4_FallbackOnGeolocationFailure ==
    (\/ last.op = "startup" /\ ~last.saved.present /\ ~geoSupported
     \/ last.op = "geoError")
        => /\ stations = Arr(<<Arr(<<KGX, EUS>>), Arr(<<PAD, WAT>>)>>)
           /\ pc = "GridSeeded"

\* witness of C4: the location request failed after startup found no item
C4_Witness ==
    /\ last.op = "geoError"
    /\ ~crashed
    /\ geoRequests = 1
    /\ stations = Arr(<<Arr(<<KGX, EUS>>), Arr(<<PAD, WAT>>)>>)

\* C5: after every grid mutation and its persistence step, the value stored
\* under "stationGrid" is the serialisation of the current grid.
C5_StoredAfterEveryMutation ==
    last.op \in MutationOps => storage = Item(Stringify(stations))

\* C6: persist/restore round trip: a restart from a non-empty grid yields
\* exactly the grid held before the restart.
C6_RestartRestoresGrid ==
    (last.op = "startup" /\ Rows(last.before) > 0) => stations = last.before

\* witness of C6: a restart restored a ragged grid that a mutation produced
C6_Witness ==
    /\ last.op = "startup"
    /\ reloads > 0
    /\ ops > 0
    /\ Ragged(last.before)
    /\ stations = last.before

\* C7: swapCells exchanges the codes at two existing distinct positions and
\* changes nothing else; it leaves the grid unchanged when there is no drop
\* target, when a position is not an existing cell, or when both positions
\* are equal.
C7_SwapCells ==
    last.op = "swapCells" =>
        LET b == last.before
            valid == /\ last.over
                     /\ HasCell(b, last.row, last.col)
                     /\ HasCell(b, last.toRow, last.toCol)
                     /\ <<last.row, last.col>> # <<last.toRow, last.toCol>>
        IN IF valid
           THEN /\ SameShape(stations, b)
                /\ CellAt(stations, last.row, last.col) = CellAt(b, last.toRow, last.toCol)
                /\ CellAt(stations, last.toRow, last.toCol) = CellAt(b, last.row, last.col)
                /\ \A rc \in Cells(b) :
                      (rc # <<last.row, last.col>> /\ rc # <<last.toRow, last.toCol>>)
                          => CellAt(stations, rc[1], rc[2]) = CellAt(b, rc[1], rc[2])
           ELSE stations = b

\* C8: setCode on an existing cell replaces that cell with the upper-cased
\* value and leaves the other cells and the shape unchanged; afterwards every
\* code in the grid is upper case and at most 3 characters long.
C8_SetCode ==
    (last.op = "setCode" /\ HasCell(last.before, last.row, last.col)) =>
        /\ SameShape(stations, last.before)
        /\ CellAt(stations, last.row, last.col) = toUpperCase(last.value)
        /\ \A rc \in Cells(last.before) :
              rc # <<last.row, last.col>>
                  => CellAt(stations, rc[1], rc[2]) = CellAt(last.before, rc[1], rc[2])
        /\ \A rc \in Cells(stations) :
              /\ IsUpperCase(CellAt(stations, rc[1], rc[2]))
              /\ Len(CellAt(stations, rc[1], rc[2]).v) <= 3

\* C9: setCode with a row or column that does not exist raises no error and
\* leaves the grid unchanged.
C9_SetCodeOutOfRange ==
    (last.op = "setCode" /\ ~HasCell(last.before, last.row, last.col)) =>
        /\ ~thrown
        /\ stations = last.before

\* C10: addColumn appends one KGX cell to every row: the row count is
\* unchanged, every row grows by exactly 1 and keeps its codes in place.
C10_AddColumn ==
    last.op = "addColumn" =>
        /\ Rows(stations) = Rows(last.before)
        /\ \A i \in 1..Rows(last.before) :
              LET old == last.before.v[i].v
                  new == stations.v[i].v
              IN /\ Len(new) = Len(old) + 1
                 /\ new[Len(new)] = KGX
                 /\ SubSeq(new, 1, Len(old)) = old

\* witness of C10: a column was added to a ragged grid
C10_Witness ==
    /\ last.op = "addColumn"
    /\ Ragged(last.before)
    /\ Rows(stations) = Rows(last.before)

\* C11: addRow appends exactly one row, every cell of it KGX, as wide as the
\* first row of the grid before (2 when that grid had no row), and leaves
\* the existing rows as they were.
C11_AddRow ==
    last.op = "addRow" =>
        LET old == last.before.v
            width == IF Len(old) = 0 THEN 2 ELSE Len(old[1].v)
        IN /\ Rows(stations) = Len(old) + 1
           /\ SubSeq(stations.v, 1, Len(old)) = old
           /\ stations.v[Len(old) + 1] = Arr([i \in 1..width |-> KGX])

\* witness of C11: a row was added below a grid whose first row is not two
\* cells wide
C11_Witness ==
    /\ last.op = "addRow"
    /\ Rows(last.before) > 0
    /\ RowLen(last.before, 0) # 2
    /\ Rows(stations) = Rows(last.before) + 1

\* a row was added to the empty grid shown while the location is requested
C11_EmptyGridRow ==
    /\ last.op = "addRow"
    /\ Rows(last.before) = 0
    /\ stations = Arr(<<Arr(<<KGX, KGX>>)>>)

\* distance in metres from pos to entry i of the directory dir
DistanceTo(dir, i, pos) == haversine(pos.latitude, pos.longitude, dir[i].lat, dir[i].lon)

\* entry i of dir is nearer to pos than entry k, or as near and earlier in dir
Nearer(dir, pos, i, k) ==
    \/ DistanceTo(dir, i, pos) < DistanceTo(dir, k, pos)
    \/ DistanceTo(dir, i, pos) = DistanceTo(dir, k, pos) /\ i < k

\* row holds the codes of the two entries of dir nearest to pos among the
\* entries with an index in cand, the nearest first
IsNearestTwo(dir, cand, pos, row) ==
    \E i, j \in cand :
        /\ i # j
        /\ \A k \in cand \ {i} : Nearer(dir, pos, i, k)
        /\ \A k \in cand \ {i, j} : Nearer(dir, pos, j, k)
        /\ row = Arr(<<dir[i].code, dir[j].code>>)

TerminalIndices(dir) == { i \in 1..Len(dir) : dir[i].code \in londonTerminals }

\* C12: when the location arrives (it is requested only if startup found no
\* layout to load) the grid becomes exactly two rows: the two stations of the whole
\* directory nearest to the position, then the two nearest among the
\* stations whose code is one of the ten London terminals.
C12_SeededFromNearest ==
    last.op = "geoSuccess" =>
        /\ Rows(stations) = 2
        /\ IsNearestTwo(stationsData, 1..Len(stationsData), last.pos, stations.v[1])
        /\ IsNearestTwo(stationsData, TerminalIndices(stationsData), last.pos, stations.v[2])

\* witness of C12: at a position near York the first row starts with York
\* and the second row holds London terminals only
C12_Witness ==
    /\ last.op = "geoSuccess"
    /\ stations = Arr(<<Arr(<<YRK, KGX>>), Arr(<<KGX, EUS>>)>>)

\* number of different entries that dir lists
DistinctEntries(dir) == Cardinality({ dir[i] : i \in 1..Len(dir) })

\* C13: over a directory of at least two entries the selection returns
\* exactly 2 codes, the nearer first and equally near ones in directory
\* order, and the 2 codes differ whenever the directory has at least 2
\* distinct entries.
C13_TwoNearestDistinct ==
    nearest.phase = "selected" =>
        /\ Len(nearest.closest.v) = 2
        /\ IsNearestTwo(nearest.dir, 1..Len(nearest.dir), nearest.pos, nearest.closest)
        /\ DistinctEntries(nearest.dir) >= 2 => nearest.closest.v[1] # nearest.closest.v[2]

\* the part of C13 that the code keeps: 2 codes, nearest first, ties in
\* directory order
C13_TwoNearestInOrder ==
    nearest.phase = "selected" =>
        /\ Len(nearest.closest.v) = 2
        /\ IsNearestTwo(nearest.dir, 1..Len(nearest.dir), nearest.pos, nearest.closest)

\* the stored item parses as a non-empty array whose elements are all arrays
NonEmptyArrayOfArrays(saved) ==
    /\ Truthy(saved)
    /\ LET p == JsonParse(saved.text)
       IN /\ p.ok
          /\ IsArray(p.val)
          /\ Len(p.val.v) > 0
          /\ \A i \in 1..Len(p.val.v) : IsArray(p.val.v[i])

\* what startup does when no layout is stored: it asks for the location, or
\* without geolocation support it sets the hardcoded defaults
StartedAsWithoutLayout ==
    IF geoSupported
    THEN pc = "RequestingLocation" /\ stations = EmptyGrid
    ELSE pc = "GridSeeded" /\ stations = FallbackGrid

\* C14: startup installs the stored value as the grid exactly when it parses
\* as a non-empty array of arrays; every other stored value is left
\* uninstalled and startup goes on as if nothing were stored.
C14_LoadOnlyArrayOfArrays ==
    last.op = "startup" =>
        IF NonEmptyArrayOfArrays(last.saved)
        THEN pc = "GridSeeded" /\ stations = JsonParse(last.saved.text).val
        ELSE StartedAsWithoutLayout

\* the stored item is a corrupt layout: text that fails to parse, or that
\* parses to a non-array or to an empty array
Corrupt(saved) ==
    /\ saved.present
    /\ LET p == JsonParse(saved.text)
       IN ~p.ok \/ ~IsArray(p.val) \/ Len(p.val.v) = 0

NoErrorShown == ~crashed /\ ~thrown

\* C15 as stated: after a startup that found a corrupt layout no error is
\* raised or shown and the seeded grid is the hardcoded defaults.
C15_CorruptLayoutGivesDefaults ==
    (last.op \in {"startup", "geoSuccess", "geoError"} /\ Corrupt(last.saved)) =>
        /\ NoErrorShown
        /\ pc = "GridSeeded" => stations = FallbackGrid

\* C15 amended: after a startup that found a corrupt layout no error is
\* raised or shown and startup goes on as if nothing were stored: without
\* geolocation support the grid is the hardcoded defaults, with it the
\* location is requested and the grid becomes the hardcoded defaults when
\* the request fails and the nearest stations when it succeeds.
C15_CorruptLayoutAsAbsent ==
    Corrupt(last.saved) =>
        /\ last.op = "startup" => NoErrorShown /\ StartedAsWithoutLayout
        /\ last.op = "geoError" => NoErrorShown /\ stations = FallbackGrid
        /\ last.op = "geoSuccess" =>
              /\ NoErrorShown
              /\ stations = Arr(<<Closest(stationsData, last.pos),
                                  LondonStations(stationsData, last.pos)>>)

\* witness of C15: the stored text did not parse, the location arrived and
\* the grid is seeded from the nearest stations, not the defaults
C15_Witness ==
    /\ last.op = "geoSuccess"
    /\ last.saved.present
    /\ ~JsonParse(last.saved.text).ok
    /\ stations = Arr(<<Arr(<<EUS, KGX>>), Arr(<<EUS, KGX>>)>>)
    /\ NoErrorShown

\* the last step applied a response to the state of the mounted board
Applied == board.event.op = "respond" /\ board.event.applied

\* a response that is a failure of the network call: the fetch rejected,
\* the status is not a success, or the body is not JSON
NetworkFailure(response) == response.rejected \/ ~response.ok \/ response.body = NotJson

\* the name and the service list shown come from one and the same response
C16_NameAndServicesTogether == board.nameFrom = board.servicesFrom

\* C16: the name and the service list are replaced together, by one
\* response; a failed response leaves the service list as it was and sets
\* the error.
C16_ReplaceTogetherOrKeepList ==
    /\ board.nameFrom = board.servicesFrom
    /\ (Applied /\ NetworkFailure(board.event.response)) =>
          /\ board.services = board.event.before.services
          /\ board.error = FailedToFetchDepartures

\* the last step settled a request whose poller was torn down before: the
\* board was removed, or its code is no longer the code of the request
StaleResponse ==
    /\ board.event.op = "respond"
    /\ board.phase = "removed" \/ board.event.request.code # board.stationCode

\* a response that arrives after its poller was torn down changes nothing
C17_StaleResponseNeverApplied == StaleResponse => Shown(board) = board.event.before

\* C17: a response that arrives after its poller was torn down is not
\* applied, and whatever name, service list and error a response has set
\* was set by a request for the code the cell has now.
C17_ShownFromCurrentCode ==
    /\ StaleResponse => Shown(board) = board.event.before
    /\ \A from \in {board.nameFrom, board.servicesFrom, board.errorFrom} :
          from # NoRequest => from.code = board.stationCode

\* C18: mounting and every change of code issue a fetch for the new code at
\* once and leave exactly one interval running, the one of that code; a
\* tick fetches for the code the cell has now; a removed board has no
\* interval left.
C18_PollerFollowsCode ==
    /\ board.event.op \in {"mount", "changeCode"} =>
          /\ board.event.request \in board.requests
          /\ board.event.request.initial
          /\ board.event.request.code = board.stationCode
    /\ board.event.op = "tick" =>
          /\ board.phase = "mounted"
          /\ board.event.request \in board.requests
          /\ board.event.request.code = board.stationCode
    /\ board.phase = "mounted" => board.timers = {board.stationCode}
    /\ board.phase \in {"unmounted", "removed"} => board.timers = {}

\* witness of C18: after a change of code the interval fired and fetched
\* for the new code
C18_Witness ==
    /\ board.event.op = "tick"
    /\ board.changes = 1
    /\ board.event.request.code = board.stationCode
    /\ \E request \in board.requests : request.initial /\ request.code = board.stationCode

\* a response that is a failure of the external call: the fetch rejected,
\* the status is not a success, or the body is not a departure board of the
\* station asked for
ExternalFailure(request, response) ==
    \/ response.rejected
    \/ ~response.ok
    \/ response.body \notin DepartureBoards(request.code)

\* C20: every failure of the departures call (rejected fetch, non-success
\* status, unexpected JSON shape) that reaches the mounted board sets the
\* message "Failed to fetch departures".
C20_FailureSetsMessage ==
    (Applied /\ ExternalFailure(board.event.request, board.event.response)) =>
        board.error = FailedToFetchDepartures

\* the failures that do end in the catch handler set the message
C20_CaughtFailureSetsMessage ==
    (Applied /\ Caught(board.event.response)) => board.error = FailedToFetchDepartures

\* the entries of the forecast at the zero-based indices from..to that exist
EntriesAt(hourly, from, to) ==
    LET final == IF to < Len(hourly.time) - 1 THEN to ELSE Len(hourly.time) - 1
    IN [i \in 1..(IF final < from THEN 0 ELSE final - from + 1) |->
           [time |-> hourly.time[from + i], temperature |-> hourly.temperature_2m[from + i]]]

\* zero-based indices of the entries for the current hour
CurrentHourIndices ==
    { i \in 0..(Len(forecast.hourly.time) - 1) : forecast.hour = forecast.start + i }

\* C19: the extraction is empty when no entry is for the current hour, and
\* otherwise holds the entries at the K indices right after the entry of
\* the current hour (fewer if the sequence ends before), in order, the
\* current hour not among them.
C19_NextHoursAfterCurrent ==
    forecast.phase = "extracted" =>
        IF CurrentHourIndices = {}
        THEN forecast.hours = <<>>
        ELSE LET idx == CHOOSE i \in CurrentHourIndices : TRUE
             IN forecast.hours = EntriesAt(forecast.hourly, idx + 1, idx + forecast.count)

\* the part of C19 that the code keeps: the case of a current hour that the
\* sequence lists
C19_NextHoursWhenCurrentListed ==
    (forecast.phase = "extracted" /\ CurrentHourIndices # {}) =>
        LET idx == CHOOSE i \in CurrentHourIndices : TRUE
        IN forecast.hours = EntriesAt(forecast.hourly, idx + 1, idx + forecast.count)

\* a response whose body the then-handler stored in the mounted board
Stored == Applied /\ ~Caught(board.event.response)

\* C21: the service list of a board never holds more than numRows entries,
\* and after a response was stored it is the list the upstream sent, in its
\* order, cut to numRows entries.
C21_AtMostEightServices ==
    /\ Len(board.services.v) <= numRows
    /\ Stored =>
          LET sent == ServicesOf(board.event.response.body).v
          IN board.services.v = SubSeq(sent, 1, IF Len(sent) < numRows THEN Len(sent) ELSE numRows)

\* the service list stored is always the list the upstream sent, in its order
C21_ServicesAsSent == Stored => board.services = ServicesOf(board.event.response.body)

\* C25: the interval fires whether or not a request is in flight, and a
\* response that is stored replaces the name and the services shown by its
\* own, whichever request had set them before; so requests of one poller
\* overlap and the response of an older request can replace the data of a
\* newer one.
C25_RequestsOverlap ==
    /\ (board.phase = "mounted" /\ board.issued < MaxRequests) => ENABLED Tick
    /\ Stored =>
          /\ board.stationName = board.event.response.body.locationName
          /\ board.services = ServicesOf(board.event.response.body)
          /\ board.servicesFrom = board.event.request

\* witness of C25: without any change of code, the response of an older
\* request replaced the services that a newer request of the same poller
\* had set
C25_Witness ==
    /\ Stored
    /\ board.changes = 0
    /\ board.event.replaced.id > board.event.request.id
    /\ board.services # board.event.before.services
    /\ board.servicesFrom = board.event.request

\* C27: an error that is set stays set through every later step of the
\* board but a restart for a changed code, which clears it; while it is set
\* the table is not shown, and a successful poll still stores its services.
C27_ErrorStaysSet ==
    [][board.error # Null =>
          /\ board'.error = Null => board'.event.op = "changeCode"
          /\ board'.error # Null =>
                /\ ~TableShown(board')
                /\ Stored' => board'.services = ServicesOf(board'.event.response.body)]_vars

\* witness of C27: with the error set, a successful poll stored other
\* services and the error is still set
C27_Witness ==
    /\ Stored
    /\ board.event.before.error = FailedToFetchDepartures
    /\ board.error = FailedToFetchDepartures
    /\ board.services # board.event.before.services
    /\ ~TableShown(board)

\* the loading flag is true exactly while the first fetch of the current
\* activation is in flight
C29_LoadingWhileFirstFetch ==
    board.phase = "mounted" => (board.loading <=> board.first \in board.requests)

\* a change of code clears the error, sets loading and keeps the name and
\* the services stored
C29_ChangeCodeKeepsData ==
    board.event.op = "changeCode" =>
        /\ board.error = Null
        /\ board.loading
        /\ board.stationName = board.event.before.stationName
        /\ board.services = board.event.before.services

\* C29: loading is true from an activation until the first fetch of that
\* activation settles and interval polls never change it; a change of code
\* clears the error, sets loading and keeps the name and the services.
C29_LoadingFollowsActivation ==
    /\ board.phase = "mounted" => (board.loading <=> board.first \in board.requests)
    /\ board.event.op = "changeCode" =>
          /\ board.error = Null
          /\ board.loading
          /\ board.stationName = board.event.before.stationName
          /\ board.services = board.event.before.services

C29_LoadingWithoutCodeChange ==
    (board.phase = "mounted" /\ board.changes = 0) =>
        (board.loading <=> board.first \in board.requests)

\* the weather panel is active and has a location
PanelActive == forecast.panel.phase = "mounted" /\ forecast.panel.location # Null

\* the header of a board is active for a station with known coordinates
HeaderActive ==
    /\ forecast.header.phase = "mounted"
    /\ stationCoordinates(forecast.header.stationCode) # Undefined

\* when a poll interval has passed, the active header has issued one more
\* weather fetch
C22_HeaderFetchedEveryInterval ==
    (forecast.event.op = "interval" /\ HeaderActive) =>
        forecast.header.issued = forecast.event.headerIssued + 1

\* C22: when a poll interval has passed, the weather panel, if active, has
\* issued one more weather fetch, and so has the header of an active board.
C22_WeatherFetchedEveryInterval ==
    forecast.event.op = "interval" =>
        /\ PanelActive => forecast.panel.issued = forecast.event.panelIssued + 1
        /\ HeaderActive => forecast.header.issued = forecast.event.headerIssued + 1

\* a weather fetch of the panel for the London fallback is in flight
FetchingLondon == \E request \in forecast.panel.requests : request.at = London

\* C30: without geolocation support, and when the location request fails,
\* the panel sets its location error and the London coordinates and issues
\* a weather fetch for them; once the geolocation attempt is over the panel
\* has a location.
C30_PanelFallsBackToLondon ==
    /\ (forecast.event.op = "mountPanel" /\ ~forecast.supported) =>
          /\ forecast.panel.locError = GeolocationNotSupported
          /\ forecast.panel.location = London
          /\ FetchingLondon
    /\ forecast.event.op = "panelGeoError" =>
          /\ forecast.panel.locError = LocationUnavailable
          /\ forecast.panel.location = London
          /\ FetchingLondon
    /\ (forecast.panel.phase = "mounted" /\ ~forecast.panel.pending) =>
          forecast.panel.location # Null

\* witness of C30: the location request failed and the weather of the
\* London fallback has arrived
C30_Witness ==
    /\ forecast.panel.locError = LocationUnavailable
    /\ forecast.panel.location = London
    /\ forecast.panel.weather = CurrentConditions
    /\ forecast.panel.issued = 1

\* the steps of the startup initialiser
InitialiserOps == {"startup", "geoSuccess", "geoError"}

\* C24: the initialiser issues at most one location request; on a platform
\* that answers every request the grid is eventually seeded; and once the
\* grid is seeded the initialiser takes no further step: it neither
\* requests a location nor sets the grid until the page is loaded again;
\* a location callback runs only while the request is pending and ends it.
C24_SeededOnce ==
    /\ [](geoRequests <= 1)
    /\ (pc # "GridSeeded") ~> (pc = "GridSeeded")
    /\ [][pc = "GridSeeded" =>
            /\ geoRequests' <= geoRequests
            /\ last'.op \notin InitialiserOps
            /\ pc' = "GridSeeded" \/ last'.op = "reload"]_vars
    /\ [][last'.op \in {"geoSuccess", "geoError"} =>
            pc = "RequestingLocation" /\ pc' = "GridSeeded"]_vars

\* witness of C24: the one location request was answered and seeded the grid
C24_Witness ==
    /\ pc = "GridSeeded"
    /\ geoRequests = 1
    /\ last.op = "geoSuccess"
    /\ stations = SeededGrid(last.pos)

\* C28: startup leaves the grid empty while it waits for the location; a
\* mutation made then is accepted (addRow on the empty grid gives
\* [["KGX","KGX"]], addColumn leaves it empty, and a step that leaves the
\* grid empty stores nothing); the location callback then sets the whole
\* grid to the seeded value, whatever the grid was.
C28_CallbackDiscardsEdits ==
    /\ []((last.op = "startup" /\ pc = "RequestingLocation") => stations = EmptyGrid)
    /\ []((last.op = "addRow" /\ last.before = EmptyGrid) =>
             stations = Arr(<<Arr(<<KGX, KGX>>)>>))
    /\ []((last.op = "addColumn" /\ last.before = EmptyGrid) => stations = EmptyGrid)
    /\ [][(pc = "RequestingLocation" /\ stations' = EmptyGrid) => storage' = storage]_vars
    /\ [](last.op = "geoSuccess" => stations = SeededGrid(last.pos))
    /\ [](last.op = "geoError" => stations = FallbackGrid)

\* witness of C28: a row was added while the location was pending and the
\* success callback replaced it by the seeded grid
C28_Witness ==
    /\ last.op = "geoSuccess"
    /\ last.before = Arr(<<Arr(<<KGX, KGX>>)>>)
    /\ stations = SeededGrid(last.pos)
    /\ stations # last.before

\* the cells of the grid: the entries of its rows
GridCells == IF Renders(stations) THEN Cells(stations) ELSE {}

\* the active departure timers of the cell at row r, column c
TimersOf(r, c) == { t \in board.timers : t.id = getId(r, c) }

\* C23: every cell of the grid has exactly one active departure timer, which
\* polls the code the cell holds, and every active departure timer is the
\* timer of a cell of the grid with the code that cell holds.
C23_OneTimerPerCell ==
    /\ \A rc \in GridCells :
          /\ Cardinality(TimersOf(rc[1], rc[2])) = 1
          /\ \A t \in TimersOf(rc[1], rc[2]) : t.stationCode = CellAt(stations, rc[1], rc[2])
    /\ \A t \in board.timers :
          \E rc \in GridCells :
              t.id = getId(rc[1], rc[2]) /\ t.stationCode = CellAt(stations, rc[1], rc[2])

\* witness of C23: a cell's code was changed in a grid of several cells and
\* the timers were restarted with it
C23_Witness ==
    /\ last.op = "setCode"
    /\ stations # last.before
    /\ Cardinality(board.timers) >= 2
    /\ Cardinality(board.timers) = Cardinality(GridCells)
====
